---- MODULE Spec2Model ----
(***************************************************************************)
(* A model of the chat export engine of cursor-chat-export                 *)
(* (src/src/export.py): MarkdownChatFormatter.format with its helpers,     *)
(* and ChatExporter.export driving the sink.                               *)
(*                                                                         *)
(* Encoding of the data.                                                   *)
(*   - A Python str is a TLA+ string; the documents are built with \o      *)
(*     exactly as the code builds them with f-strings and "\n".join.       *)
(*   - A Python dict is a record whose DOMAIN is the set of its keys       *)
(*     ("k" in d  is  "k" \in DOMAIN d); the empty dict is EmptyDict.      *)
(*   - A JSON list held in a field is a sequence.                          *)
(*   - A JSON value that is not a dict where the code expects one (a       *)
(*     number, a string) is the record [scalar |-> text].                  *)
(*   - The raw value of a record (a str handed to json.loads) is a record  *)
(*     with the field json: "bad" when json.loads raises JSONDecodeError,  *)
(*     "scalar" when it parses to a number/string/null, "list" with its    *)
(*     items, "dict" with its obj.                                         *)
(*   - None is <<>> and a present optional value x is <<x>>.               *)
(*   - An operator that can raise returns [raised |-> BOOLEAN, val |-> _]. *)
(***************************************************************************)
EXTENDS Integers, Sequences, FiniteSets, TLC

\* ------------------------------------------------------------------------
\* Python primitives
\* ------------------------------------------------------------------------

None == <<>>

Some(x) == <<x>>

EmptyDict == [k \in {} |-> ""]

IsDict(x) == "scalar" \notin DOMAIN x

Char(s, k) == SubSeq(s, k, k)

Whitespace == {" ", "\n", "\t"}

RECURSIVE LStrip(_)
LStrip(s) ==
    IF Len(s) = 0 THEN s
    ELSE IF Char(s, 1) \in Whitespace THEN LStrip(SubSeq(s, 2, Len(s)))
    ELSE s

RECURSIVE RStrip(_)
RStrip(s) ==
    IF Len(s) = 0 THEN s
    ELSE IF Char(s, Len(s)) \in Whitespace THEN RStrip(SubSeq(s, 1, Len(s) - 1))
    ELSE s

\* str.strip()
Strip(s) == RStrip(LStrip(s))

\* sep.join(parts)
RECURSIVE Join(_, _)
Join(sep, parts) ==
    IF Len(parts) = 0 THEN ""
    ELSE IF Len(parts) = 1 THEN parts[1]
    ELSE parts[1] \o sep \o Join(sep, Tail(parts))

\* s.startswith(prefix)
StartsWith(s, prefix) ==
    /\ Len(prefix) <= Len(s)
    /\ SubSeq(s, 1, Len(prefix)) = prefix

\* the index of the last occurrence of the one-character string c in s, 0 if none
RECURSIVE LastIndexOf(_, _, _)
LastIndexOf(s, c, k) ==
    IF k = 0 THEN 0
    ELSE IF Char(s, k) = c THEN k
    ELSE LastIndexOf(s, c, k - 1)

\* s.split(c)[-1]
LastSegment(s, c) == SubSeq(s, LastIndexOf(s, c, Len(s)) + 1, Len(s))

Digits == <<"0", "1", "2", "3", "4", "5", "6", "7", "8", "9">>

\* str(n) for a natural number
RECURSIVE IntToStr(_)
IntToStr(n) ==
    IF n < 10 THEN Digits[n + 1]
    ELSE IntToStr(n \div 10) \o Digits[(n % 10) + 1]

\* the index of the first "\n" of s at or after k, Len(s) + 1 if none
RECURSIVE LineEnd(_, _)
LineEnd(s, k) ==
    IF k > Len(s) THEN k
    ELSE IF Char(s, k) = "\n" THEN k
    ELSE LineEnd(s, k + 1)

\* the three backquotes of a code fence are written ~~~ in the strings of this
\* module (a TLA+ string cannot hold a backquote)
FenceTag == "~~~python:"

BareFence == "~~~python"

\* re.sub of line 280 on s, scanning from index k: a fence tag followed by
\* at least one character other than a newline is replaced, up to the end of
\* its line, by the bare python fence
RECURSIVE ReSubFenceFrom(_, _)
ReSubFenceFrom(s, k) ==
    IF k > Len(s) THEN ""
    ELSE IF /\ k + Len(FenceTag) <= Len(s)
            /\ SubSeq(s, k, k + Len(FenceTag) - 1) = FenceTag
            /\ Char(s, k + Len(FenceTag)) # "\n"
         THEN BareFence \o ReSubFenceFrom(s, LineEnd(s, k + Len(FenceTag)))
    ELSE Char(s, k) \o ReSubFenceFrom(s, k + 1)

ReSubFence(s) == ReSubFenceFrom(s, 1)

Ok(v) == [raised |-> FALSE, val |-> v]

RaiseStr == [raised |-> TRUE, val |-> ""]

RaiseSeq == [raised |-> TRUE, val |-> <<>>]

\* ------------------------------------------------------------------------
\* MarkdownChatFormatter: the bubbles of a tab
\* ------------------------------------------------------------------------

ErrorSentinel == "[ERROR: no user text found]"

\* json.loads(initText)['root']['children'][0]['children'][0]['text'] of line
\* 40: the text leaf, or a raise on a value that is not JSON or lacks a level
InitTextLeaf(it) ==
    IF it.json # "dict" THEN RaiseStr
    ELSE IF "root" \notin DOMAIN it.obj THEN RaiseStr
    ELSE IF "children" \notin DOMAIN it.obj.root THEN RaiseStr
    ELSE IF Len(it.obj.root.children) = 0 THEN RaiseStr
    ELSE IF "children" \notin DOMAIN it.obj.root.children[1] THEN RaiseStr
    ELSE IF Len(it.obj.root.children[1].children) = 0 THEN RaiseStr
    ELSE IF "text" \notin DOMAIN it.obj.root.children[1].children[1] THEN RaiseStr
    ELSE Ok(it.obj.root.children[1].children[1].text)

\* _extract_text_from_user_bubble: every raise inside is caught and becomes
\* the sentinel
_extract_text_from_user_bubble(bubble) ==
    IF "delegate" \in DOMAIN bubble THEN
        IF DOMAIN bubble.delegate # {} THEN
            IF "a" \in DOMAIN bubble.delegate THEN bubble.delegate.a
            ELSE ErrorSentinel
        ELSE ""
    ELSE IF "text" \in DOMAIN bubble THEN
        IF bubble.text # "" THEN bubble.text ELSE ""
    ELSE IF "initText" \in DOMAIN bubble THEN
        IF bubble.initText.json # "empty" THEN
            IF InitTextLeaf(bubble.initText).raised THEN ErrorSentinel
            ELSE InitTextLeaf(bubble.initText).val
        ELSE ""
    ELSE IF "rawText" \in DOMAIN bubble THEN
        \* line 49 reads bubble['text'], a key this branch knows to be absent:
        \* KeyError, caught at line 57
        IF bubble.rawText # "" THEN ErrorSentinel ELSE ""
    ELSE ErrorSentinel

\* the "[selections]" block of line 249; raises when a selection has no text
SelectionsBlock(sels) ==
    IF \E k \in 1..Len(sels) : "text" \notin DOMAIN sels[k] THEN RaiseSeq
    ELSE Ok(<<"[selections]  \n" \o Join("\n", [k \in 1..Len(sels) |-> sels[k].text])>>)

\* the image block of lines 252-264: bubble['image']['path'] raises KeyError
\* without a path; for an existing file line 256 reads tab_image_dir before
\* line 257 assigns it, which raises UnboundLocalError
ImageBlock(bubble, index, image_dir, files) ==
    IF "image" \in DOMAIN bubble /\ image_dir # None THEN
        IF "path" \notin DOMAIN bubble.image THEN RaiseSeq
        ELSE IF bubble.image.path \in files THEN RaiseSeq
        ELSE Ok(<<"[image]  \n![User Image]()">>)
    ELSE Ok(<<>>)

\* _format_user_bubble with the test of line 273 off by one (len(user_text) > 1)
_format_user_bubble_keeps_empty(bubble, index, image_dir, files) ==
    LET sel == IF "selections" \in DOMAIN bubble /\ Len(bubble.selections) > 0
               THEN SelectionsBlock(bubble.selections)
               ELSE Ok(<<>>)
        img == ImageBlock(bubble, index, image_dir, files)
        user_text_text == _extract_text_from_user_bubble(bubble)
        txt == IF user_text_text # "" THEN <<"[text]  \n" \o user_text_text>> ELSE <<>>
        user_text == <<"## User:\n\n">> \o sel.val \o img.val \o txt \o <<"\n">>
    IN  IF sel.raised \/ img.raised THEN RaiseSeq
        ELSE IF Len(user_text) > 1 THEN Ok(user_text)
        ELSE Ok(<<>>)

\* _format_user_bubble
_format_user_bubble(bubble, index, image_dir, files) ==
    LET sel == IF "selections" \in DOMAIN bubble /\ Len(bubble.selections) > 0
               THEN SelectionsBlock(bubble.selections)
               ELSE Ok(<<>>)
        img == ImageBlock(bubble, index, image_dir, files)
        user_text_text == _extract_text_from_user_bubble(bubble)
        txt == IF user_text_text # "" THEN <<"[text]  \n" \o user_text_text>> ELSE <<>>
        user_text == <<"## User:\n\n">> \o sel.val \o img.val \o txt \o <<"\n">>
    IN  IF sel.raised \/ img.raised THEN RaiseSeq
        ELSE IF Len(user_text) > 2 THEN Ok(user_text)
        ELSE Ok(<<>>)

\* _format_ai_bubble without the lookup of modelType
_format_ai_bubble_no_model(bubble) ==
    IF "rawText" \notin DOMAIN bubble THEN RaiseSeq
    ELSE Ok(<<"## AI (Unknown):\n\n" \o ReSubFence(bubble.rawText) \o "\n">>)

\* _format_ai_bubble
_format_ai_bubble(bubble) ==
    LET model_type == IF "modelType" \in DOMAIN bubble THEN bubble.modelType ELSE "Unknown"
    IN  IF "rawText" \notin DOMAIN bubble THEN RaiseSeq
        ELSE Ok(<<"## AI (" \o model_type \o "):\n\n" \o ReSubFence(bubble.rawText) \o "\n">>)

\* one iteration of the loop of lines 199-203
FormatBubble(bubble, index, image_dir, files) ==
    IF "type" \notin DOMAIN bubble THEN RaiseSeq
    ELSE IF bubble.type = "user" THEN _format_user_bubble(bubble, index, image_dir, files)
    ELSE IF bubble.type = "ai" THEN _format_ai_bubble(bubble)
    ELSE Ok(<<>>)

\* the loop of lines 199-203 over the bubbles from position k on
RECURSIVE FormatBubbles(_, _, _, _, _)
FormatBubbles(bubbles, k, index, image_dir, files) ==
    IF k > Len(bubbles) THEN Ok(<<>>)
    ELSE LET head == FormatBubble(bubbles[k], index, image_dir, files)
             rest == FormatBubbles(bubbles, k + 1, index, image_dir, files)
         IN  IF head.raised \/ rest.raised THEN RaiseSeq
             ELSE Ok(head.val \o rest.val)

\* _format_aichat_tab
_format_aichat_tab(tab, index, image_dir, files) ==
    LET title == IF "chatTitle" \in DOMAIN tab THEN tab.chatTitle
                 ELSE "Chat " \o IntToStr(index)
        body == FormatBubbles(tab.bubbles, 1, index, image_dir, files)
    IN  IF "bubbles" \notin DOMAIN tab THEN RaiseStr
        ELSE IF body.raised THEN RaiseStr
        ELSE Ok(Join("\n", <<"# Chat Transcript - " \o title \o "\n">> \o body.val))

\* ------------------------------------------------------------------------
\* MarkdownChatFormatter: composer reconciliation
\* ------------------------------------------------------------------------

\* json.loads(value)
JsonLoads(value) ==
    IF value.json = "bad" THEN [raised |-> TRUE, val |-> value]
    ELSE [raised |-> FALSE, val |-> value]

\* d.get(k, default) rendered by an f-string, for a field holding a str
GetStr(d, k, default) == IF k \in DOMAIN d THEN d[k] ELSE default

\* d.get(k) rendered by an f-string, for a field holding a number
GetNumStr(d, k) == IF k \in DOMAIN d THEN IntToStr(d[k]) ELSE "None"

\* response_map.setdefault(uuid, text): the first record of an identifier stays
MapPut_keeps_first(map, uuid, text) ==
    [u \in DOMAIN map \cup {uuid} |-> IF u \in DOMAIN map THEN map[u] ELSE text]

\* response_map[uuid] = text
MapPut(map, uuid, text) ==
    [u \in DOMAIN map \cup {uuid} |-> IF u = uuid THEN text ELSE map[u]]

\* the loop of lines 77-86 over the response records from position k on
RECURSIVE BuildResponseMap(_, _, _)
BuildResponseMap(responses, k, map) ==
    IF k > Len(responses) THEN map
    ELSE LET key == responses[k].key
             parsed == JsonLoads(responses[k].value)
             data == parsed.val
         IN  IF parsed.raised THEN BuildResponseMap(responses, k + 1, map)
             ELSE IF data.json = "dict" /\ "response" \in DOMAIN data.obj
                  THEN LET uuid == IF "generationUUID" \in DOMAIN data.obj
                                   THEN data.obj.generationUUID
                                   ELSE LastSegment(key, ":")
                       IN  BuildResponseMap(responses, k + 1,
                                            MapPut(map, uuid, data.obj.response))
             ELSE BuildResponseMap(responses, k + 1, map)

\* the sort key of line 93: x.get('unixMs', 0)
SortKey(x) == IF "unixMs" \in DOMAIN x THEN x.unixMs ELSE 0

\* x placed behind every element of the sorted list whose key is not larger
RECURSIVE InsertSorted(_, _)
InsertSorted(x, sorted) ==
    IF Len(sorted) = 0 THEN <<x>>
    ELSE IF SortKey(x) < SortKey(Head(sorted)) THEN <<x>> \o sorted
    ELSE <<Head(sorted)>> \o InsertSorted(x, Tail(sorted))

\* sorted(prompts, key=...) of line 93: stable, ascending
RECURSIVE Sorted(_)
Sorted(list) ==
    IF Len(list) = 0 THEN <<>>
    ELSE InsertSorted(list[Len(list)], Sorted(SubSeq(list, 1, Len(list) - 1)))

\* lines 91-93: the prompts in the order the loop of line 95 visits them;
\* the key function raises AttributeError on an entry that is not a dict
OrderPrompts(prompts) ==
    IF Len(prompts) > 0 /\ IsDict(prompts[1]) /\ "unixMs" \in DOMAIN prompts[1]
    THEN IF \E k \in 1..Len(prompts) : ~IsDict(prompts[k]) THEN RaiseSeq
         ELSE Ok(Sorted(prompts))
    ELSE Ok(prompts)

\* lines 113-118 with the break of line 118 inside the test of line 115: the
\* scan goes on until an entry with the identifier carries a text
RECURSIVE GenerationTurn_break_inside(_, _, _)
GenerationTurn_break_inside(generations, k, uuid) ==
    IF k > Len(generations) THEN <<>>
    ELSE LET gen == generations[k]
         IN  IF /\ IsDict(gen) /\ "generationUUID" \in DOMAIN gen /\ gen.generationUUID = uuid
                /\ "textDescription" \in DOMAIN gen
             THEN <<"### Assistant\n", gen.textDescription \o "\n\n">>
             ELSE GenerationTurn_break_inside(generations, k + 1, uuid)

\* lines 113-118: the first generation with the identifier decides
RECURSIVE GenerationTurn(_, _, _)
GenerationTurn(generations, k, uuid) ==
    IF k > Len(generations) THEN <<>>
    ELSE LET gen == generations[k]
         IN  IF IsDict(gen) /\ "generationUUID" \in DOMAIN gen /\ gen.generationUUID = uuid
             THEN IF "textDescription" \in DOMAIN gen
                  THEN <<"### Assistant\n", gen.textDescription \o "\n\n">>
                  ELSE <<>>
             ELSE GenerationTurn(generations, k + 1, uuid)

\* one iteration of the loop of lines 95-118 with the response looked up
\* before the user message is added
PromptTurns_reply_first(prompt, response_map, generations) ==
    IF ~IsDict(prompt) THEN <<>>
    ELSE (IF "generationUUID" \in DOMAIN prompt
          THEN IF prompt.generationUUID \in DOMAIN response_map
               THEN <<"### Assistant\n", response_map[prompt.generationUUID] \o "\n\n">>
               ELSE GenerationTurn(generations, 1, prompt.generationUUID)
          ELSE <<>>)
         \o
         (IF "text" \in DOMAIN prompt
          THEN <<"### User\n", prompt.text \o "\n\n">>
          ELSE <<>>)

\* one iteration of the loop of lines 95-118
PromptTurns(prompt, response_map, generations) ==
    IF ~IsDict(prompt) THEN <<>>
    ELSE (IF "text" \in DOMAIN prompt
          THEN <<"### User\n", prompt.text \o "\n\n">>
          ELSE <<>>)
         \o
         (IF "generationUUID" \in DOMAIN prompt
          THEN IF prompt.generationUUID \in DOMAIN response_map
               THEN <<"### Assistant\n", response_map[prompt.generationUUID] \o "\n\n">>
               ELSE GenerationTurn(generations, 1, prompt.generationUUID)
          ELSE <<>>)

RECURSIVE AllPromptTurns(_, _, _, _)
AllPromptTurns(prompts, k, response_map, generations) ==
    IF k > Len(prompts) THEN <<>>
    ELSE PromptTurns(prompts[k], response_map, generations)
         \o AllPromptTurns(prompts, k + 1, response_map, generations)

\* _format_composer_data; composer_data.get raises AttributeError on an entry
\* that is not a dict
_format_composer_data(composer_data, generations, prompts, responses) ==
    LET header == << "# " \o GetStr(composer_data, "name", "Untitled Composer") \o "\n",
                     "Composer ID: " \o GetStr(composer_data, "composerId", "None") \o "\n",
                     "Created: " \o GetNumStr(composer_data, "createdAt") \o "\n",
                     "Last Updated: " \o GetNumStr(composer_data, "lastUpdatedAt") \o "\n",
                     "Mode: " \o GetStr(composer_data, "unifiedMode", "unknown") \o "\n\n" >>
        response_map == BuildResponseMap(responses, 1, EmptyDict)
        ordered == OrderPrompts(prompts)
    IN  IF ~IsDict(composer_data) THEN RaiseStr
        ELSE IF ordered.raised THEN RaiseStr
        ELSE Ok(Join("\n", header \o <<"## Conversation\n">>
                           \o AllPromptTurns(ordered.val, 1, response_map, generations)))

\* ------------------------------------------------------------------------
\* MarkdownChatFormatter.format: the loops over the composers and the tabs
\* ------------------------------------------------------------------------

\* formatted_chats[name] = body on a dict kept in insertion order
DictPut(chats, name, body) ==
    IF \E k \in 1..Len(chats) : chats[k].name = name
    THEN [k \in 1..Len(chats) |->
            IF chats[k].name = name THEN [name |-> name, body |-> body] ELSE chats[k]]
    ELSE Append(chats, [name |-> name, body |-> body])

\* the loop of lines 162-166 over the composers from position k on; a raise
\* leaves the loop with the count and the documents reached so far
RECURSIVE ComposerLoop(_, _, _, _, _, _, _)
ComposerLoop(composers, k, count, chats, generations, prompts, responses) ==
    IF k > Len(composers) THEN [raised |-> FALSE, count |-> count, chats |-> chats]
    ELSE LET composer == composers[k]
             formatted_chat == _format_composer_data(composer, generations, prompts, responses)
             name == "composer_" \o GetStr(composer, "composerId", IntToStr(count + 1))
         IN  IF formatted_chat.raised
             THEN [raised |-> TRUE, count |-> count + 1, chats |-> chats]
             ELSE ComposerLoop(composers, k + 1, count + 1,
                               IF Strip(formatted_chat.val) # ""
                               THEN DictPut(chats, name, formatted_chat.val)
                               ELSE chats,
                               generations, prompts, responses)

\* the loop of lines 176-182 with the counter advanced before the filter is
\* applied: a skipped tab takes a number
RECURSIVE TabLoop_counts_skipped(_, _, _, _, _, _, _)
TabLoop_counts_skipped(tabs, k, count, chats, image_dir, tab_ids, files) ==
    IF k > Len(tabs) THEN [raised |-> FALSE, count |-> count, chats |-> chats]
    ELSE IF tab_ids # None /\ (k - 1) \notin tab_ids[1]
         THEN TabLoop_counts_skipped(tabs, k + 1, count + 1, chats, image_dir, tab_ids, files)
    ELSE LET formatted_chat == _format_aichat_tab(tabs[k], count + 1, image_dir, files)
         IN  IF formatted_chat.raised
             THEN [raised |-> TRUE, count |-> count, chats |-> chats]
             ELSE IF Strip(formatted_chat.val) # ""
                  THEN TabLoop_counts_skipped(tabs, k + 1, count + 1,
                               DictPut(chats, "chat_" \o IntToStr(count + 1), formatted_chat.val),
                               image_dir, tab_ids, files)
             ELSE TabLoop_counts_skipped(tabs, k + 1, count, chats, image_dir, tab_ids, files)

\* the loop of lines 176-182 over the tabs from position k on (tab_index is
\* k - 1); a raise leaves the loop with the count and the documents so far
RECURSIVE TabLoop(_, _, _, _, _, _, _)
TabLoop(tabs, k, count, chats, image_dir, tab_ids, files) ==
    IF k > Len(tabs) THEN [raised |-> FALSE, count |-> count, chats |-> chats]
    ELSE IF tab_ids # None /\ (k - 1) \notin tab_ids[1]
         THEN TabLoop(tabs, k + 1, count, chats, image_dir, tab_ids, files)
    ELSE LET formatted_chat == _format_aichat_tab(tabs[k], count + 1, image_dir, files)
         IN  IF formatted_chat.raised
             THEN [raised |-> TRUE, count |-> count, chats |-> chats]
             ELSE IF Strip(formatted_chat.val) # ""
                  THEN TabLoop(tabs, k + 1, count + 1,
                               DictPut(chats, "chat_" \o IntToStr(count + 1), formatted_chat.val),
                               image_dir, tab_ids, files)
             ELSE TabLoop(tabs, k + 1, count, chats, image_dir, tab_ids, files)

\* the buckets of lines 138-141 before the collecting loop
NoBuckets ==
    [composer_data |-> None, generations |-> <<>>, prompts |-> <<>>, responses |-> <<>>]

\* the body of the collecting loop, lines 144-158, on one record: a value that
\* does not parse (line 157) or is no dict/list (line 146) changes nothing
ClassifyStep(rec, b) ==
    LET parsed == JsonLoads(rec.value)
        data == parsed.val
    IN  IF parsed.raised THEN b
        ELSE IF data.json \notin {"dict", "list"} THEN b
        ELSE IF rec.key = "composer.composerData"
             THEN [b EXCEPT !.composer_data = Some(data)]
        ELSE IF rec.key = "aiService.generations"
             THEN [b EXCEPT !.generations = IF data.json = "list" THEN data.items ELSE <<>>]
        ELSE IF rec.key = "aiService.prompts"
             THEN [b EXCEPT !.prompts = IF data.json = "list" THEN data.items ELSE <<>>]
        ELSE IF StartsWith(rec.key, "cursorDiskKV:")
             THEN [b EXCEPT !.responses = Append(@, [key |-> rec.key, value |-> rec.value])]
        ELSE b

\* lines 161-166: the composers of the collected metadata
ComposerStep(b, count, chats) ==
    IF /\ b.composer_data # None
       /\ b.composer_data[1].json = "dict"
       /\ DOMAIN b.composer_data[1].obj # {}
       /\ "allComposers" \in DOMAIN b.composer_data[1].obj
    THEN ComposerLoop(b.composer_data[1].obj.allComposers, 1, count, chats,
                      b.generations, b.prompts, b.responses)
    ELSE [raised |-> FALSE, count |-> count, chats |-> chats]

\* the body of the session loop without the except clause of line 183: a value
\* that does not parse raises out of the loop
SessionStep_parse_error_raises(rec, count, chats, image_dir, tab_ids, files) ==
    LET parsed == JsonLoads(rec.value)
        data == parsed.val
    IN  IF parsed.raised THEN [raised |-> TRUE, count |-> count, chats |-> chats]
        ELSE IF data.json # "dict" THEN [raised |-> FALSE, count |-> count, chats |-> chats]
        ELSE IF "tabs" \in DOMAIN data.obj
             THEN TabLoop(data.obj.tabs, 1, count, chats, image_dir, tab_ids, files)
        ELSE [raised |-> FALSE, count |-> count, chats |-> chats]

\* the body of the session loop, lines 170-184, on one record: a value that
\* does not parse (line 183) or is no dict (line 172) changes nothing
SessionStep(rec, count, chats, image_dir, tab_ids, files) ==
    LET parsed == JsonLoads(rec.value)
        data == parsed.val
    IN  IF parsed.raised THEN [raised |-> FALSE, count |-> count, chats |-> chats]
        ELSE IF data.json # "dict" THEN [raised |-> FALSE, count |-> count, chats |-> chats]
        ELSE IF "tabs" \in DOMAIN data.obj
             THEN TabLoop(data.obj.tabs, 1, count, chats, image_dir, tab_ids, files)
        ELSE [raised |-> FALSE, count |-> count, chats |-> chats]

\* format returning the documents rendered so far after a raise
FormatExcept_partial(chats) == Some(chats)

\* lines 191-193: what format returns after a raise, given the documents
\* rendered before it
FormatExcept(chats) == None

RECURSIVE CollectFrom(_, _, _)
CollectFrom(batch, k, b) ==
    IF k > Len(batch) THEN b
    ELSE CollectFrom(batch, k + 1, ClassifyStep(batch[k], b))

RECURSIVE SessionsFrom(_, _, _, _, _, _, _)
SessionsFrom(batch, k, count, chats, image_dir, tab_ids, files) ==
    IF k > Len(batch) THEN [raised |-> FALSE, count |-> count, chats |-> chats]
    ELSE LET step == SessionStep(batch[k], count, chats, image_dir, tab_ids, files)
         IN  IF step.raised THEN step
             ELSE SessionsFrom(batch, k + 1, step.count, step.chats,
                               image_dir, tab_ids, files)

\* format as a function of its arguments (and of the file system): None, or
\* Some(formatted_chats)
format(batch, image_dir, tab_ids, files) ==
    LET b == CollectFrom(batch, 1, NoBuckets)
        c == ComposerStep(b, 0, <<>>)
        t == SessionsFrom(batch, 1, c.count, c.chats, image_dir, tab_ids, files)
    IN  IF c.raised THEN FormatExcept(c.chats)
        ELSE IF t.raised THEN FormatExcept(t.chats)
        ELSE Some(t.chats)

\* ------------------------------------------------------------------------
\* MarkdownFileSaver
\* ------------------------------------------------------------------------

\* save without the except clauses of lines 322-325: a failed write raises
save_propagates(formatted_data, file_path, files, io_ok) ==
    IF io_ok THEN [raised |-> FALSE, files |-> files \cup {file_path}]
    ELSE [raised |-> TRUE, files |-> files]

\* save, lines 318-325: the file is written, or the failure of the write is
\* caught and logged; io_ok tells whether the file system takes the write
save(formatted_data, file_path, files, io_ok) ==
    IF io_ok THEN [raised |-> FALSE, files |-> files \cup {file_path}]
    ELSE [raised |-> FALSE, files |-> files]

\* ------------------------------------------------------------------------
\* The inputs
\* ------------------------------------------------------------------------

MaxBubbles == 2

MaxTabs == 3

MaxExtra == 1

MaxPrompts == 2

MaxGenerations == 2

MaxResponses == 2

MaxComposers == 2

SeqsUpTo(S, n) == UNION {[1..m -> S] : m \in 0..n}

SessionKey == "workbench.panel.aichat.view.aichat.chatdata"

ImagePresent == "/tmp/a.png"

ImageMissing == "/tmp/gone.png"

RichText(t) ==
    [json |-> "dict",
     obj |-> [root |-> [children |-> << [children |-> << [text |-> t] >>] >>]]]

AnnotatedFence == "~~~python:/a.py\nx = 1\n~~~"

UserBubbles ==
    { [type |-> "user", text |-> "hi"],
      [type |-> "user", text |-> ""],
      [type |-> "user", selections |-> <<>>],
      [type |-> "user", selections |-> <<>>, text |-> ""],
      [type |-> "user", selections |-> << [text |-> "s1"], [text |-> "s2"] >>, text |-> "hi"],
      [type |-> "user", selections |-> << [text |-> "s1"] >>],
      [type |-> "user", selections |-> << [file |-> "f"] >>, text |-> "hi"],
      [type |-> "user", delegate |-> [a |-> "dq"]],
      [type |-> "user", delegate |-> EmptyDict, text |-> "hi"],
      [type |-> "user", delegate |-> [b |-> "x"]],
      [type |-> "user", initText |-> RichText("rich")],
      [type |-> "user", initText |-> [json |-> "dict", obj |-> [root |-> [children |-> <<>>]]]],
      [type |-> "user", initText |-> [json |-> "bad"]],
      [type |-> "user", initText |-> [json |-> "empty"]],
      [type |-> "user", rawText |-> "raw"],
      [type |-> "user", rawText |-> ""],
      [type |-> "user", selections |-> <<>>, rawText |-> ""],
      [type |-> "user", selections |-> <<>>, delegate |-> EmptyDict],
      [type |-> "user"],
      [type |-> "user", image |-> [path |-> ImagePresent], text |-> "hi"],
      [type |-> "user", image |-> [path |-> ImageMissing]],
      [type |-> "user", image |-> [url |-> "u"], text |-> "hi"] }

AiBubbles ==
    { [type |-> "ai", modelType |-> "gpt", rawText |-> "hello"],
      [type |-> "ai", modelType |-> "gpt", rawText |-> AnnotatedFence],
      [type |-> "ai", rawText |-> "hello"],
      [type |-> "ai", modelType |-> "gpt"] }

OtherBubbles ==
    { [text |-> "hi"],
      [type |-> "system", text |-> "hi"] }

Bubbles == UserBubbles \cup AiBubbles \cup OtherBubbles

\* the tabs of the single-tab batches: every list of at most MaxBubbles bubbles
BubbleTabs ==
    { [chatTitle |-> "T", bubbles |-> bs] : bs \in SeqsUpTo(Bubbles, MaxBubbles) }

\* the tabs of the multi-tab batches: a well-formed one without a title, and
\* one whose ai bubble has no rawText
TabCatalog ==
    { [bubbles |-> << [type |-> "user", text |-> "hi"],
                      [type |-> "ai", modelType |-> "gpt", rawText |-> "hello"] >>],
      [chatTitle |-> "M",
       bubbles |-> << [type |-> "user", text |-> "hi"],
                      [type |-> "ai", modelType |-> "gpt"] >>] }

SessionRecord(tabs) ==
    [key |-> SessionKey, value |-> [json |-> "dict", obj |-> [tabs |-> tabs]]]

UnparseableRecord == [key |-> SessionKey, value |-> [json |-> "bad"]]

ComposerRecord(composers) ==
    [key |-> "composer.composerData",
     value |-> [json |-> "dict", obj |-> [allComposers |-> composers]]]

PlainComposer ==
    [name |-> "N", composerId |-> "c1", createdAt |-> 10, lastUpdatedAt |-> 12,
     unifiedMode |-> "agent"]

OkTab ==
    [chatTitle |-> "T",
     bubbles |-> << [type |-> "user", text |-> "hi"],
                    [type |-> "ai", modelType |-> "gpt", rawText |-> "hello"] >>]

\* the main record of a multi-tab batch: a chat session with every list of
\* tabs, or a record whose value does not parse
MainRecords ==
    { SessionRecord(tabs) : tabs \in SeqsUpTo(TabCatalog, MaxTabs) }
        \cup {UnparseableRecord}

\* the records before and after the main record: one that does not parse, the
\* metadata of one composer, the metadata with a composer that is no dict, and
\* a chat session with one tab
ExtraRecords ==
    { UnparseableRecord,
      ComposerRecord(<<PlainComposer>>),
      ComposerRecord(<<[scalar |-> "7"]>>),
      SessionRecord(<<OkTab>>) }

\* records whose key is one of the four reserved ones and whose value holds a
\* tabs field, and a chat session
RoutingRecords ==
    { [key |-> k, value |-> [json |-> "dict", obj |-> [tabs |-> <<OkTab>>]]] :
          k \in {"composer.composerData", "aiService.generations", "aiService.prompts",
                 "cursorDiskKV:bubble:u1"} }
        \cup { [key |-> "composer.composerData",
                value |-> [json |-> "dict",
                           obj |-> [allComposers |-> <<PlainComposer>>, tabs |-> <<OkTab>>]]],
               SessionRecord(<<OkTab>>) }

TabFilters == {None, Some({0}), Some({0, 2})}

ImageDirs == {None, Some("images")}

OutputDir == "out"

PromptCatalog ==
    { [text |-> "q1", generationUUID |-> "u1", unixMs |-> 2],
      [text |-> "q2", generationUUID |-> "u2", unixMs |-> 1],
      [text |-> "q3", generationUUID |-> "u1"],
      [generationUUID |-> "u2", unixMs |-> 3],
      [scalar |-> "7"] }

GenerationCatalog ==
    { [generationUUID |-> "u1", textDescription |-> "d1"],
      [generationUUID |-> "u1"] }

ResponseCatalog ==
    { [key |-> "cursorDiskKV:bubble:u1",
       value |-> [json |-> "dict", obj |-> [response |-> "r1"]]],
      [key |-> "cursorDiskKV:bubble:x9",
       value |-> [json |-> "dict", obj |-> [response |-> "r2", generationUUID |-> "u1"]]] }

ComposerCatalog == { PlainComposer, [scalar |-> "7"] }

PromptRecord(ps) == [key |-> "aiService.prompts", value |-> [json |-> "list", items |-> ps]]

GenerationRecord(gs) ==
    [key |-> "aiService.generations", value |-> [json |-> "list", items |-> gs]]

\* ------------------------------------------------------------------------
\* The state: ChatExporter.export running MarkdownChatFormatter.format
\* ------------------------------------------------------------------------

VARIABLES
    chat_data,        \* the batch: a sequence of [key, value]
    image_dir,        \* None or the image output root
    tab_ids,          \* None or the set of tab indices to render
    files,            \* the paths that exist in the file system
    pc,               \* the position of export/format
    i,                \* the index of the running loop over chat_data
    composer_data,    \* None or the parsed value kept at line 150
    generations,      \* line 139/152
    prompts,          \* line 140/154
    responses,        \* line 141/156
    chat_count,       \* line 135
    formatted_chats,  \* line 134: a sequence of [name, body], in insertion order
    ret,              \* what format returned: None, or Some(formatted_chats)
    n,                \* the index of the loop of line 351
    saved             \* the calls of the sink: a sequence of [file_path, formatted_data]

vars == <<chat_data, image_dir, tab_ids, files, pc, i, composer_data, generations,
          prompts, responses, chat_count, formatted_chats, ret, n, saved>>

inputs == <<chat_data, image_dir, tab_ids>>

Start ==
    /\ files = {ImagePresent}
    /\ pc = "export"
    /\ i = 1
    /\ composer_data = None
    /\ generations = <<>>
    /\ prompts = <<>>
    /\ responses = <<>>
    /\ chat_count = 0
    /\ formatted_chats = <<>>
    /\ ret = None
    /\ n = 1
    /\ saved = <<>>

\* one chat session with one tab: every list of bubbles
InitBubbles ==
    /\ chat_data \in { <<SessionRecord(<<tab>>)>> : tab \in BubbleTabs }
    /\ image_dir \in ImageDirs
    /\ tab_ids = None
    /\ Start

\* batches of chat sessions and of records that are no chat session
InitSessions ==
    /\ chat_data \in { pre \o <<main>> \o post :
                         pre \in SeqsUpTo(ExtraRecords, MaxExtra),
                         main \in MainRecords,
                         post \in SeqsUpTo(ExtraRecords, MaxExtra) }
    /\ image_dir = Some("images")
    /\ tab_ids \in TabFilters
    /\ Start

\* batches of records with a reserved key and a tabs field
InitRouting ==
    /\ chat_data \in SeqsUpTo(RoutingRecords, MaxExtra + 1) \ {<<>>}
    /\ image_dir = Some("images")
    /\ tab_ids = None
    /\ Start

InitTabs == InitBubbles \/ InitSessions \/ InitRouting

\* one composer with every prompt log, generation log and list of responses
InitReconcile ==
    /\ chat_data \in { <<ComposerRecord(<<PlainComposer>>), PromptRecord(ps),
                         GenerationRecord(gs)>> \o rs :
                         ps \in SeqsUpTo(PromptCatalog, MaxPrompts),
                         gs \in SeqsUpTo(GenerationCatalog, MaxGenerations),
                         rs \in SeqsUpTo(ResponseCatalog, MaxResponses) }
    /\ image_dir = Some("images")
    /\ tab_ids = None
    /\ Start

\* every list of composers, with one prompt, its generation and its response
InitComposers ==
    /\ chat_data \in { <<ComposerRecord(cs),
                         PromptRecord(<<[text |-> "q1", generationUUID |-> "u1", unixMs |-> 2]>>),
                         GenerationRecord(<<[generationUUID |-> "u1", textDescription |-> "d1"]>>),
                         [key |-> "cursorDiskKV:bubble:u1",
                          value |-> [json |-> "dict", obj |-> [response |-> "r1"]]]>> :
                         cs \in SeqsUpTo(ComposerCatalog, MaxComposers) }
    /\ image_dir = Some("images")
    /\ tab_ids = None
    /\ Start

InitComposer == InitReconcile \/ InitComposers

Init == InitTabs \/ InitComposer

\* ------------------------------------------------------------------------
\* The steps
\* ------------------------------------------------------------------------

\* export, lines 348-349: the output directory is made and format is entered
ExportStart ==
    /\ pc = "export"
    /\ files' = files \cup {OutputDir}
    /\ pc' = "collect"
    /\ UNCHANGED <<inputs, i, composer_data, generations, prompts, responses,
                   chat_count, formatted_chats, ret, n, saved>>

\* format, lines 143-158: one iteration of the collecting loop
ClassifyRecord ==
    /\ pc = "collect"
    /\ i <= Len(chat_data)
    /\ LET b == ClassifyStep(chat_data[i],
                             [composer_data |-> composer_data, generations |-> generations,
                              prompts |-> prompts, responses |-> responses])
       IN  /\ composer_data' = b.composer_data
           /\ generations' = b.generations
           /\ prompts' = b.prompts
           /\ responses' = b.responses
    /\ i' = i + 1
    /\ UNCHANGED <<inputs, files, pc, chat_count, formatted_chats, ret, n, saved>>

\* format, lines 161-166: the composers; a raise is caught at line 191 and
\* format returns (line 193)
HandleComposers ==
    /\ pc = "collect"
    /\ i > Len(chat_data)
    /\ LET loop == ComposerStep([composer_data |-> composer_data,
                                 generations |-> generations,
                                 prompts |-> prompts, responses |-> responses],
                                chat_count, formatted_chats)
       IN  /\ chat_count' = loop.count
           /\ formatted_chats' = loop.chats
           /\ pc' = IF loop.raised THEN "returned" ELSE "sessions"
           /\ ret' = IF loop.raised THEN FormatExcept(loop.chats) ELSE ret
    /\ i' = 1
    /\ UNCHANGED <<inputs, files, composer_data, generations, prompts, responses, n, saved>>

\* format, lines 169-184: one iteration of the loop over the chat sessions; a
\* raise is caught at line 191 and format returns (line 193)
HandleSessionRecord ==
    /\ pc = "sessions"
    /\ i <= Len(chat_data)
    /\ LET loop == SessionStep(chat_data[i], chat_count, formatted_chats,
                               image_dir, tab_ids, files)
       IN  /\ chat_count' = loop.count
           /\ formatted_chats' = loop.chats
           /\ pc' = IF loop.raised THEN "returned" ELSE "sessions"
           /\ ret' = IF loop.raised THEN FormatExcept(loop.chats) ELSE ret
    /\ i' = i + 1
    /\ UNCHANGED <<inputs, files, composer_data, generations, prompts, responses, n, saved>>

\* format, lines 186-190: the documents are returned
FormatReturn ==
    /\ pc = "sessions"
    /\ i > Len(chat_data)
    /\ ret' = Some(formatted_chats)
    /\ pc' = "returned"
    /\ UNCHANGED <<inputs, files, i, composer_data, generations, prompts, responses,
                   chat_count, formatted_chats, n, saved>>

\* export, lines 351-353: one document is handed to the sink, whose write
\* succeeds or fails; a raise of the sink is caught at line 354 and ends export
ExportSave ==
    /\ pc = "returned"
    /\ ret # None
    /\ n <= Len(ret[1])
    /\ \E io_ok \in BOOLEAN :
          LET file_path == OutputDir \o "/" \o ret[1][n].name \o ".md"
              call == save(ret[1][n].body, file_path, files, io_ok)
          IN  /\ saved' = Append(saved, [file_path |-> file_path,
                                         formatted_data |-> ret[1][n].body])
              /\ files' = call.files
              /\ pc' = IF call.raised THEN "done" ELSE pc
    /\ n' = n + 1
    /\ UNCHANGED <<inputs, i, composer_data, generations, prompts, responses,
                   chat_count, formatted_chats, ret>>

\* export returns: format gave None (line 350) or the loop of line 351 is over
ExportReturn ==
    /\ pc = "returned"
    /\ IF ret = None THEN TRUE ELSE n > Len(ret[1])
    /\ pc' = "done"
    /\ UNCHANGED <<inputs, files, i, composer_data, generations, prompts, responses,
                   chat_count, formatted_chats, ret, n, saved>>

Next ==
    \/ ExportStart
    \/ ClassifyRecord
    \/ HandleComposers
    \/ HandleSessionRecord
    \/ FormatReturn
    \/ ExportSave
    \/ ExportReturn

Spec == Init /\ [][Next]_vars

SpecTabs == InitTabs /\ [][Next]_vars

SpecComposer == InitComposer /\ [][Next]_vars

\* the steps of format compute the function format
StepsComputeFormat ==
    pc \in {"returned", "done"} => ret = format(chat_data, image_dir, tab_ids, files)

TypeOK ==
    /\ pc \in {"export", "collect", "sessions", "returned", "done"}
    /\ chat_count \in Nat
    /\ i \in 1..(Len(chat_data) + 1)
    /\ n >= 1

\* ------------------------------------------------------------------------
\* Vocabulary of the properties
\* ------------------------------------------------------------------------

\* sub occurs in s
Contains(s, sub) ==
    \E k \in 1..(Len(s) - Len(sub) + 1) : SubSeq(s, k, k + Len(sub) - 1) = sub

\* record r of the batch is a chat session
IsSession(r) ==
    /\ chat_data[r].value.json = "dict"
    /\ "tabs" \in DOMAIN chat_data[r].value.obj

TabsOf(r) == chat_data[r].value.obj.tabs

\* tab t (counted from 1) of a session passes the tab-index filter
Considered(t) == IF tab_ids = None THEN TRUE ELSE (t - 1) \in tab_ids[1]

\* the positions <<r, t>> of the considered tabs
TabPositions ==
    UNION { { <<r, t>> : t \in {u \in 1..Len(TabsOf(r)) : Considered(u)} } :
              r \in {q \in 1..Len(chat_data) : IsSession(q)} }

TabAt(tp) == TabsOf(tp[1])[tp[2]]

\* the positions <<r, t, k>> of the bubbles of the considered tabs
BubblePositions ==
    UNION { { <<tp[1], tp[2], k>> : k \in 1..Len(TabAt(tp).bubbles) } :
              tp \in {q \in TabPositions : "bubbles" \in DOMAIN TabAt(q)} }

BubbleAt(pos) == TabsOf(pos[1])[pos[2]].bubbles[pos[3]]

IsUserBubble(b) == IF "type" \in DOMAIN b THEN b.type = "user" ELSE FALSE

IsAiBubble(b) == IF "type" \in DOMAIN b THEN b.type = "ai" ELSE FALSE

\* the malformed bubbles: no type, an ai bubble without rawText, an image
\* object without a path
MalformedBubble(b) ==
    \/ "type" \notin DOMAIN b
    \/ IsAiBubble(b) /\ "rawText" \notin DOMAIN b
    \/ IsUserBubble(b) /\ "image" \in DOMAIN b /\ "path" \notin DOMAIN b.image

\* a document holds a turn
HasTurn(body) ==
    \/ Contains(body, "## User:")
    \/ Contains(body, "## AI (")
    \/ Contains(body, "### User\n")
    \/ Contains(body, "### Assistant\n")

Documents == IF ret = None THEN {} ELSE {ret[1][k].body : k \in 1..Len(ret[1])}

\* ------------------------------------------------------------------------
\* C1 - a malformed bubble does not abort its tab or its batch
\* ------------------------------------------------------------------------

\* C1: when a considered tab of the batch holds a malformed bubble (no type,
\* an ai bubble without rawText, an image without a path), format still returns
\* a document set, and every ai bubble of the batch that has its rawText is
\* rendered in one of the returned documents.
C1_MalformedBubbleKeepsTheRest ==
    (/\ pc = "done"
     /\ \E pos \in BubblePositions : MalformedBubble(BubbleAt(pos))
     /\ \E pos \in BubblePositions :
           IsAiBubble(BubbleAt(pos)) /\ "rawText" \in DOMAIN BubbleAt(pos))
        => /\ ret # None
           /\ \A pos \in BubblePositions :
                (IsAiBubble(BubbleAt(pos)) /\ "rawText" \in DOMAIN BubbleAt(pos))
                    => \E body \in Documents :
                          Contains(body, "):\n\n" \o ReSubFence(BubbleAt(pos).rawText) \o "\n")

\* ------------------------------------------------------------------------
\* C2 - no document without a turn
\* ------------------------------------------------------------------------

\* C2: every document of the returned set, and so every document handed to
\* the sink, holds at least one user or assistant turn.
C2_EveryDocumentHasATurn ==
    /\ \A body \in Documents : HasTurn(body)
    /\ \A k \in 1..Len(saved) : HasTurn(saved[k].formatted_data)

\* ------------------------------------------------------------------------
\* C3 - the user bubble with only an empty selections list
\* ------------------------------------------------------------------------

TextFields == {"delegate", "text", "initText", "rawText"}

\* a user bubble with an empty selections list and no image
OnlyEmptySelections(b) ==
    /\ IsUserBubble(b)
    /\ "selections" \in DOMAIN b
    /\ Len(b.selections) = 0
    /\ "image" \notin DOMAIN b

NoTextField(b) == DOMAIN b \cap TextFields = {}

\* the text-bearing field the chain of lines 27-47 stops at is present and empty
EmptyTextField(b) ==
    IF "delegate" \in DOMAIN b THEN DOMAIN b.delegate = {}
    ELSE IF "text" \in DOMAIN b THEN b.text = ""
    ELSE IF "initText" \in DOMAIN b THEN b.initText.json = "empty"
    ELSE IF "rawText" \in DOMAIN b THEN b.rawText = ""
    ELSE FALSE

UserBubblesOfBatch == {BubbleAt(pos) : pos \in {q \in BubblePositions : IsUserBubble(BubbleAt(q))}}

\* C3 as stated: a user bubble with only an empty selections list, no
\* text-bearing field and no image gives an empty list, and a batch whose user
\* bubbles are all of this kind has no "User:" section in its documents.
C3_NoTextFieldGivesNoUserBlock ==
    pc = "done" =>
        /\ \A b \in UserBubblesOfBatch :
              (OnlyEmptySelections(b) /\ NoTextField(b))
                  => _format_user_bubble(b, 1, image_dir, files) = Ok(<<>>)
        /\ (\A b \in UserBubblesOfBatch : OnlyEmptySelections(b) /\ NoTextField(b))
              => \A body \in Documents : ~Contains(body, "## User:")

\* C3 amended: a user bubble with only an empty selections list, no image and
\* a text-bearing field that is present but empty gives an empty list and no
\* "User:" section; with no text-bearing field at all the bubble is rendered
\* as a "User:" section holding the sentinel error string.
C3_EmptyTextFieldGivesNoUserBlock ==
    pc = "done" =>
        /\ \A b \in UserBubblesOfBatch :
              (OnlyEmptySelections(b) /\ EmptyTextField(b))
                  => _format_user_bubble(b, 1, image_dir, files) = Ok(<<>>)
        /\ (\A b \in UserBubblesOfBatch : OnlyEmptySelections(b) /\ EmptyTextField(b))
              => \A body \in Documents : ~Contains(body, "## User:")
        /\ (ret # None /\ \E b \in UserBubblesOfBatch : OnlyEmptySelections(b) /\ NoTextField(b))
              => \E body \in Documents :
                    Contains(body, "## User:\n\n\n[text]  \n[ERROR: no user text found]\n")

\* a finished run whose only user bubbles have an empty selections list and an
\* empty text-bearing field, next to an ai bubble that is rendered
C3_Witness ==
    /\ pc = "done"
    /\ ret # None
    /\ Len(ret[1]) = 1
    /\ UserBubblesOfBatch # {}
    /\ \A b \in UserBubblesOfBatch : OnlyEmptySelections(b) /\ EmptyTextField(b)
    /\ \E body \in Documents : Contains(body, "## AI (")

\* ------------------------------------------------------------------------
\* C4 - a failure of the batch gives no document at all
\* ------------------------------------------------------------------------

\* a bubble on which the rendering raises
RaisingBubble(b) ==
    \/ "type" \notin DOMAIN b
    \/ IsAiBubble(b) /\ "rawText" \notin DOMAIN b
    \/ /\ IsUserBubble(b)
       /\ "selections" \in DOMAIN b
       /\ \E k \in 1..Len(b.selections) : "text" \notin DOMAIN b.selections[k]
    \/ /\ IsUserBubble(b)
       /\ "image" \in DOMAIN b
       /\ image_dir # None
       /\ IF "path" \in DOMAIN b.image THEN b.image.path \in files ELSE TRUE

\* the prompt log on which the sort of line 93 raises
RaisingPrompts(r) ==
    /\ chat_data[r].key = "aiService.prompts"
    /\ chat_data[r].value.json = "list"
    /\ LET ps == chat_data[r].value.items
       IN  /\ Len(ps) > 0
           /\ IsDict(ps[1])
           /\ "unixMs" \in DOMAIN ps[1]
           /\ \E k \in 1..Len(ps) : ~IsDict(ps[k])

\* record r holds composer metadata that is kept at line 150
ComposerMetadata(r) ==
    /\ chat_data[r].key = "composer.composerData"
    /\ chat_data[r].value.json \in {"dict", "list"}

\* the composer metadata on which the rendering raises: the last one collected
RaisingComposers(r) ==
    /\ ComposerMetadata(r)
    /\ \A q \in (r + 1)..Len(chat_data) : ~ComposerMetadata(q)
    /\ chat_data[r].value.json = "dict"
    /\ "allComposers" \in DOMAIN chat_data[r].value.obj
    /\ LET cs == chat_data[r].value.obj.allComposers
       IN  \/ \E k \in 1..Len(cs) : ~IsDict(cs[k])
           \/ Len(cs) > 0 /\ \E q \in 1..Len(chat_data) : RaisingPrompts(q)

\* the batch makes format hit an exception
BatchRaises ==
    \/ \E pos \in BubblePositions : RaisingBubble(BubbleAt(pos))
    \/ \E r \in 1..Len(chat_data) : RaisingComposers(r)

\* C4: when the batch makes format hit an exception, format returns None,
\* not the documents rendered before the failure, and the sink is never called;
\* whenever format returned None the sink has not been called.
C4_FailureGivesNoDocuments ==
    /\ ret = None => saved = <<>>
    /\ (pc \in {"returned", "done"} /\ BatchRaises) => ret = None

\* export has returned after a failure that came after a document was rendered
C4_Witness ==
    /\ pc = "done"
    /\ BatchRaises
    /\ formatted_chats # <<>>
    /\ ret = None
    /\ saved = <<>>

\* ------------------------------------------------------------------------
\* Vocabulary of the composer properties
\* ------------------------------------------------------------------------

\* the documents of the composers in the returned set
ComposerDocuments ==
    IF ret = None THEN {}
    ELSE {ret[1][k].body : k \in {q \in 1..Len(ret[1]) : StartsWith(ret[1][q].name, "composer_")}}

\* a user turn and an assistant turn as they stand in a document
UserTurn(text) == "### User\n\n" \o text \o "\n\n"

AssistantTurn(text) == "### Assistant\n\n" \o text \o "\n\n"

\* the assistant turn right behind the user turn
Exchange(text, reply) == UserTurn(text) \o "\n" \o AssistantTurn(reply)

\* response record k carries a reply
IsReply(k) ==
    /\ responses[k].value.json = "dict"
    /\ "response" \in DOMAIN responses[k].value.obj

\* the identifier response record k resolves to: the embedded generationUUID
\* when present, else the trailing ':'-separated segment of the key
ReplyId(k) ==
    IF "generationUUID" \in DOMAIN responses[k].value.obj
    THEN responses[k].value.obj.generationUUID
    ELSE LastSegment(responses[k].key, ":")

ReplyText(k) == responses[k].value.obj.response

Replies == {k \in 1..Len(responses) : IsReply(k)}

ReplyIds == {ReplyId(k) : k \in Replies}

\* the reply scanned last among those of the identifier
LastReply(id) ==
    CHOOSE k \in Replies :
        /\ ReplyId(k) = id
        /\ \A q \in Replies : ReplyId(q) = id => q <= k

\* the prompts that carry an identifier
IdentifiedPrompts ==
    {k \in 1..Len(prompts) : IsDict(prompts[k]) /\ "generationUUID" \in DOMAIN prompts[k]}

\* the generations of the identifier
GenerationsOf(id) ==
    {k \in 1..Len(generations) :
        /\ IsDict(generations[k])
        /\ "generationUUID" \in DOMAIN generations[k]
        /\ generations[k].generationUUID = id}

FirstGeneration(id) == CHOOSE k \in GenerationsOf(id) : \A q \in GenerationsOf(id) : k <= q

\* the document shows the assistant turn of prompt k with the text reply:
\* right behind the user turn when the prompt carries text
ShowsReply(body, k, reply) ==
    IF "text" \in DOMAIN prompts[k]
    THEN Contains(body, Exchange(prompts[k].text, reply))
    ELSE Contains(body, AssistantTurn(reply))

\* ------------------------------------------------------------------------
\* C5 - the response follows its prompt
\* ------------------------------------------------------------------------

\* C5: in every composer document, for every prompt that carries text and an
\* identifier some response record resolves to, the reply text held for that
\* identifier stands as an assistant turn right behind the prompt's user turn.
C5_ResponseFollowsItsPrompt ==
    pc = "done" =>
        \A body \in ComposerDocuments :
            \A k \in IdentifiedPrompts :
                ("text" \in DOMAIN prompts[k] /\ prompts[k].generationUUID \in ReplyIds)
                    => Contains(body, Exchange(prompts[k].text,
                                               ReplyText(LastReply(prompts[k].generationUUID))))

\* a composer document was returned for a prompt with text whose identifier
\* has a response
C5_Witness ==
    /\ pc = "done"
    /\ ComposerDocuments # {}
    /\ \E k \in IdentifiedPrompts :
          "text" \in DOMAIN prompts[k] /\ prompts[k].generationUUID \in ReplyIds

\* ------------------------------------------------------------------------
\* C6 - the generation log as the fallback
\* ------------------------------------------------------------------------

\* C6 as stated: for every prompt whose identifier has no response but has a
\* generation entry that carries descriptive text, whichever entry of the
\* identifier that is, the composer document shows that text as the prompt's
\* assistant turn.
C6_AnyGenerationTextIsShown ==
    pc = "done" =>
        \A body \in ComposerDocuments :
            \A k \in IdentifiedPrompts :
                prompts[k].generationUUID \notin ReplyIds
                    => \A g \in GenerationsOf(prompts[k].generationUUID) :
                          "textDescription" \in DOMAIN generations[g]
                              => ShowsReply(body, k, generations[g].textDescription)

\* C6 amended: for every prompt whose identifier has no response, the first
\* generation entry with the identifier decides: when it carries descriptive
\* text the document shows that text as the prompt's assistant turn, and when
\* it carries none the document shows no assistant turn for the prompt, also
\* when a later entry of the identifier carries text.
C6_FirstGenerationDecides ==
    pc = "done" =>
        \A body \in ComposerDocuments :
            \A k \in IdentifiedPrompts :
                (/\ prompts[k].generationUUID \notin ReplyIds
                 /\ GenerationsOf(prompts[k].generationUUID) # {})
                    => LET first == generations[FirstGeneration(prompts[k].generationUUID)]
                       IN  IF "textDescription" \in DOMAIN first
                           THEN ShowsReply(body, k, first.textDescription)
                           ELSE "text" \in DOMAIN prompts[k]
                                    => ~Contains(body, UserTurn(prompts[k].text)
                                                       \o "\n" \o "### Assistant")

\* a composer document was returned for a prompt without response whose
\* identifier has two generation entries, the first without text and a later
\* one with text
C6_Witness ==
    /\ pc = "done"
    /\ ComposerDocuments # {}
    /\ \E k \in IdentifiedPrompts :
          /\ "text" \in DOMAIN prompts[k]
          /\ prompts[k].generationUUID \notin ReplyIds
          /\ \E g, h \in GenerationsOf(prompts[k].generationUUID) :
                /\ g < h
                /\ g = FirstGeneration(prompts[k].generationUUID)
                /\ "textDescription" \notin DOMAIN generations[g]
                /\ "textDescription" \in DOMAIN generations[h]

\* ------------------------------------------------------------------------
\* C7 - two responses with one identifier
\* ------------------------------------------------------------------------

\* C7: when two response records resolve to one identifier, the response
\* mapping holds the reply of the one scanned later, and every composer
\* document shows that reply, and never the earlier one, for the prompts of
\* the identifier.
C7_LaterResponseWins ==
    pc = "done" =>
        \A a, b \in Replies :
            (a < b /\ ReplyId(a) = ReplyId(b) /\ b = LastReply(ReplyId(b)))
                => /\ BuildResponseMap(responses, 1, EmptyDict)[ReplyId(b)] = ReplyText(b)
                   /\ \A body \in ComposerDocuments :
                        \A k \in IdentifiedPrompts :
                            prompts[k].generationUUID = ReplyId(b)
                                => /\ ShowsReply(body, k, ReplyText(b))
                                   /\ ReplyText(a) # ReplyText(b)
                                        => ~Contains(body, AssistantTurn(ReplyText(a)))

\* a composer document was returned for a prompt whose identifier two response
\* records with different replies resolve to
C7_Witness ==
    /\ pc = "done"
    /\ ComposerDocuments # {}
    /\ \E a, b \in Replies :
          /\ a < b
          /\ ReplyId(a) = ReplyId(b)
          /\ ReplyText(a) # ReplyText(b)
          /\ \E k \in IdentifiedPrompts :
                "text" \in DOMAIN prompts[k] /\ prompts[k].generationUUID = ReplyId(b)

\* ------------------------------------------------------------------------
\* C8 - the tab-index filter
\* ------------------------------------------------------------------------

\* the documents of the chat sessions in the returned set, by position
ChatDocuments ==
    IF ret = None THEN {}
    ELSE {k \in 1..Len(ret[1]) : StartsWith(ret[1][k].name, "chat_")}

\* the number of composers of the metadata collected last
ComposerCount ==
    IF \E r \in 1..Len(chat_data) : ComposerMetadata(r)
    THEN LET r == CHOOSE q \in 1..Len(chat_data) :
                     /\ ComposerMetadata(q)
                     /\ \A u \in (q + 1)..Len(chat_data) : ~ComposerMetadata(u)
         IN  IF chat_data[r].value.json = "dict" /\ "allComposers" \in DOMAIN chat_data[r].value.obj
             THEN Len(chat_data[r].value.obj.allComposers)
             ELSE 0
    ELSE 0

\* the rank of a considered tab among the considered tabs of the batch
Rank(tp) ==
    Cardinality({q \in TabPositions : q[1] < tp[1] \/ (q[1] = tp[1] /\ q[2] <= tp[2])})

\* the title heading of a tab rendered under the number nr
TitleHeading(tab, nr) ==
    "# Chat Transcript - "
        \o (IF "chatTitle" \in DOMAIN tab THEN tab.chatTitle ELSE "Chat " \o IntToStr(nr))
        \o "\n"

\* C8: only the tabs that pass the filter are rendered, added and counted:
\* a batch whose considered tabs and composers do not raise gives a document
\* set whatever the other tabs hold, the set has one chat document per
\* considered tab, the counter ends at the number of composers plus the number
\* of considered tabs, and the document of the k-th considered tab is named
\* and titled with the number of composers plus k, as if the tabs outside the
\* filter did not exist.
C8_OnlyFilteredTabsCount ==
    pc = "done" =>
        /\ ~BatchRaises => ret # None
        /\ ret # None =>
              /\ Cardinality(ChatDocuments) = Cardinality(TabPositions)
              /\ chat_count = ComposerCount + Cardinality(TabPositions)
              /\ \A tp \in TabPositions :
                    \E k \in ChatDocuments :
                        /\ ret[1][k].name = "chat_" \o IntToStr(ComposerCount + Rank(tp))
                        /\ StartsWith(ret[1][k].body,
                                      TitleHeading(TabAt(tp), ComposerCount + Rank(tp)))

\* a run with the filter {0} over a session of three tabs whose second tab
\* would raise has returned the document of the first tab
C8_Witness ==
    /\ pc = "done"
    /\ tab_ids = Some({0})
    /\ ret # None
    /\ \E r \in 1..Len(chat_data) :
          /\ IsSession(r)
          /\ Len(TabsOf(r)) = 3
          /\ \E k \in 1..Len(TabsOf(r)[2].bubbles) : RaisingBubble(TabsOf(r)[2].bubbles[k])
    /\ ChatDocuments # {}

\* ------------------------------------------------------------------------
\* C9 - records that do not parse
\* ------------------------------------------------------------------------

Unparseable(rec) == rec.value.json = "bad"

RECURSIVE WithoutUnparseable(_)
WithoutUnparseable(batch) ==
    IF Len(batch) = 0 THEN <<>>
    ELSE IF Unparseable(Head(batch)) THEN WithoutUnparseable(Tail(batch))
    ELSE <<Head(batch)>> \o WithoutUnparseable(Tail(batch))

\* C9: format returns for a batch what it returns for the batch without its
\* unparseable records, and the empty document set, not None, for a batch of
\* unparseable records only.
C9_UnparseableRecordsAreSkipped ==
    pc = "done" =>
        /\ ret = format(WithoutUnparseable(chat_data), image_dir, tab_ids, files)
        /\ (\A r \in 1..Len(chat_data) : Unparseable(chat_data[r])) => ret = Some(<<>>)

\* a run over a batch with an unparseable record in front of a chat session
\* has returned a document
C9_Witness ==
    /\ pc = "done"
    /\ \E r \in 1..Len(chat_data) :
          /\ Unparseable(chat_data[r])
          /\ \E q \in (r + 1)..Len(chat_data) : IsSession(q) /\ Len(TabsOf(q)) > 0
    /\ ret # None
    /\ ChatDocuments # {}

\* a run over unparseable records only has returned the empty document set
C9_WitnessOnlyUnparseable ==
    /\ pc = "done"
    /\ Len(chat_data) > 1
    /\ \A r \in 1..Len(chat_data) : Unparseable(chat_data[r])
    /\ ret = Some(<<>>)

\* ------------------------------------------------------------------------
\* C10 - one user bubble, one ai bubble, one document
\* ------------------------------------------------------------------------

\* the batch is one chat session with one titled tab that holds a user bubble
\* with a non-empty direct text and an ai bubble with a model type and a raw
\* text
PlainExchangeBatch ==
    /\ Len(chat_data) = 1
    /\ chat_data[1].key = SessionKey
    /\ IsSession(1)
    /\ Len(TabsOf(1)) = 1
    /\ Considered(1)
    /\ DOMAIN TabsOf(1)[1] = {"chatTitle", "bubbles"}
    /\ Len(TabsOf(1)[1].bubbles) = 2
    /\ LET u == TabsOf(1)[1].bubbles[1]
           a == TabsOf(1)[1].bubbles[2]
       IN  /\ DOMAIN u = {"type", "text"}
           /\ u.type = "user"
           /\ u.text # ""
           /\ DOMAIN a = {"type", "modelType", "rawText"}
           /\ a.type = "ai"

\* the title heading, the "User:" section and the "AI (<model>):" section
PlainExchangeDocument(title, text, model, raw) ==
    "# Chat Transcript - " \o title \o "\n"
        \o "\n" \o "## User:\n\n" \o "\n" \o "[text]  \n" \o text \o "\n" \o "\n"
        \o "\n" \o "## AI (" \o model \o "):\n\n" \o raw \o "\n"

\* the chat documents made so far are named chat_<n> with n increasing in the
\* order they were made, up to the counter
ChatNamesFollowCounter ==
    LET chats == {k \in 1..Len(formatted_chats) : StartsWith(formatted_chats[k].name, "chat_")}
    IN  /\ \A k \in chats :
              \E nr \in 1..chat_count : formatted_chats[k].name = "chat_" \o IntToStr(nr)
        /\ \A j, k \in chats :
              j < k => \E nr, mr \in 1..chat_count :
                          /\ nr < mr
                          /\ formatted_chats[j].name = "chat_" \o IntToStr(nr)
                          /\ formatted_chats[k].name = "chat_" \o IntToStr(mr)

\* C10 as stated: for such a batch export writes exactly one document, named
\* chat_1.md, that holds the title heading, the "User:" section with the user
\* text and the "AI (<modelType>):" section with the raw text; and the chat
\* documents are named by the counter.
C10_PlainExchangeVerbatim ==
    /\ ChatNamesFollowCounter
    /\ (pc = "done" /\ PlainExchangeBatch) =>
          LET tab == TabsOf(1)[1]
          IN  saved = << [file_path |-> "out/chat_1.md",
                          formatted_data |->
                              PlainExchangeDocument(tab.chatTitle, tab.bubbles[1].text,
                                                    tab.bubbles[2].modelType,
                                                    tab.bubbles[2].rawText)] >>

\* the raw text as the "AI" section shows it
ShownRawText(raw) ==
    IF raw = AnnotatedFence THEN "~~~python\nx = 1\n~~~" ELSE raw

\* C10 amended: for such a batch export writes exactly one document, named
\* chat_1.md, that holds the title heading, the "User:" section with the user
\* text and the "AI (<modelType>):" section with the raw text in which the
\* path annotation of a python code fence is removed; and the chat documents
\* are named chat_<n> with n increasing in the order they are made.
C10_PlainExchangeDocumentWritten ==
    /\ ChatNamesFollowCounter
    /\ (pc = "done" /\ PlainExchangeBatch) =>
          LET tab == TabsOf(1)[1]
          IN  saved = << [file_path |-> "out/chat_1.md",
                          formatted_data |->
                              PlainExchangeDocument(tab.chatTitle, tab.bubbles[1].text,
                                                    tab.bubbles[2].modelType,
                                                    ShownRawText(tab.bubbles[2].rawText))] >>

\* export has written the document of a plain exchange whose raw text holds
\* an annotated python fence
C10_Witness ==
    /\ pc = "done"
    /\ PlainExchangeBatch
    /\ TabsOf(1)[1].bubbles[2].rawText = AnnotatedFence
    /\ Len(saved) = 1

\* ------------------------------------------------------------------------
\* C11 - a failed save does not stop the others
\* ------------------------------------------------------------------------

\* the call of the sink export makes for document k of the returned set
SinkCall(k) ==
    [file_path |-> OutputDir \o "/" \o ret[1][k].name \o ".md",
     formatted_data |-> ret[1][k].body]

\* the write of document k of the returned set has failed
SaveFailed(k) == SinkCall(k).file_path \notin files

\* C11: whichever saves fail, the sink is called exactly once for every
\* document of the set format returned, in the order of the set: while export
\* is in its loop every document before the current one has had its call, the
\* loop is only left behind the last document, and export has then returned.
C11_FailedSaveDoesNotStopTheOthers ==
    ret # None =>
        /\ pc = "returned" =>
              /\ n <= Len(ret[1]) + 1
              /\ saved = [k \in 1..(n - 1) |-> SinkCall(k)]
        /\ pc = "done" => saved = [k \in 1..Len(ret[1]) |-> SinkCall(k)]

\* export has returned after the save of the first of three documents
\* failed and the saves of the later ones succeeded
C11_Witness ==
    /\ pc = "done"
    /\ ret # None
    /\ Len(ret[1]) = 3
    /\ SaveFailed(1)
    /\ ~SaveFailed(2)
    /\ ~SaveFailed(3)
    /\ Len(saved) = 3

\* ------------------------------------------------------------------------
\* C12 - the priority chain of the user text
\* ------------------------------------------------------------------------

\* the optional results of the four strategies on a user bubble
DelegateAnswer(b) ==
    IF "delegate" \in DOMAIN b /\ "a" \in DOMAIN b.delegate /\ b.delegate.a # ""
    THEN Some(b.delegate.a) ELSE None

DirectText(b) ==
    IF "text" \in DOMAIN b /\ b.text # "" THEN Some(b.text) ELSE None

RichTextLeaf(b) ==
    IF "initText" \in DOMAIN b /\ b.initText.json # "empty"
    THEN IF InitTextLeaf(b.initText).raised THEN Some(ErrorSentinel)
         ELSE IF InitTextLeaf(b.initText).val # "" THEN Some(InitTextLeaf(b.initText).val)
         ELSE None
    ELSE None

RawTextOf(b) ==
    IF "rawText" \in DOMAIN b /\ b.rawText # "" THEN Some(b.rawText) ELSE None

\* the first non-empty result of the strategies in their order; without any,
\* the sentinel when no text field is present and the empty text otherwise
FirstNonEmptyText(b) ==
    IF DelegateAnswer(b) # None THEN DelegateAnswer(b)[1]
    ELSE IF DirectText(b) # None THEN DirectText(b)[1]
    ELSE IF RichTextLeaf(b) # None THEN RichTextLeaf(b)[1]
    ELSE IF RawTextOf(b) # None THEN RawTextOf(b)[1]
    ELSE IF NoTextField(b) THEN ErrorSentinel
    ELSE ""

\* C12: for every user bubble of the batch the extracted text is the first
\* non-empty result of the strategies delegate answer, direct text, rich-text
\* leaf, raw text: an empty field falls through to the next strategy, a bubble
\* with only a non-empty rawText yields that text, and the sentinel comes only
\* from a structural failure of the rich text or from a bubble without any of
\* the four fields; the document of a tab shows the text so extracted.
C12_FirstNonEmptyStrategyWins ==
    pc = "done" =>
        /\ \A b \in UserBubblesOfBatch :
              _extract_text_from_user_bubble(b) = FirstNonEmptyText(b)
        /\ ret # None =>
              \A b \in UserBubblesOfBatch :
                  FirstNonEmptyText(b) # "" =>
                      \E body \in Documents :
                          Contains(body, "[text]  \n" \o FirstNonEmptyText(b) \o "\n")

\* ------------------------------------------------------------------------
\* C13 - the image of a user bubble
\* ------------------------------------------------------------------------

\* a user bubble with a reference to an image file
HasImage(b) == IsUserBubble(b) /\ "image" \in DOMAIN b /\ "path" \in DOMAIN b.image

\* a bubble on which the rendering raises for a reason other than its image
\* file
RaisesWithoutImage(b) ==
    \/ "type" \notin DOMAIN b
    \/ IsAiBubble(b) /\ "rawText" \notin DOMAIN b
    \/ /\ IsUserBubble(b)
       /\ "selections" \in DOMAIN b
       /\ \E k \in 1..Len(b.selections) : "text" \notin DOMAIN b.selections[k]
    \/ IsUserBubble(b) /\ "image" \in DOMAIN b /\ "path" \notin DOMAIN b.image

\* the last segment of the path of the image files of the catalogue
Basename(path) ==
    IF path = ImagePresent THEN "a.png"
    ELSE IF path = ImageMissing THEN "gone.png"
    ELSE path

\* the image reference of a user block
ImageReference(path) == "[image]  \n![User Image](" \o path \o ")"

\* C13: with an image root configured and no other malformed bubble in the
\* batch, a user bubble at tab number nr whose image file exists gets the
\* directory <image_root>/tab_<nr> made, the file copied into it, and a user
\* block with a reference to the new path in a returned document; a user
\* bubble whose image file is missing gets a reference with an empty path, and
\* the run goes on to return the documents.
C13_ImageIsCopiedAndReferenced ==
    (/\ pc = "done"
     /\ image_dir # None
     /\ \A pos \in BubblePositions : ~RaisesWithoutImage(BubbleAt(pos)))
        => \A pos \in BubblePositions :
              HasImage(BubbleAt(pos)) =>
                  LET path == BubbleAt(pos).image.path
                      tab_image_dir == image_dir[1] \o "/tab_"
                                           \o IntToStr(ComposerCount + Rank(<<pos[1], pos[2]>>))
                      new_image_path == tab_image_dir \o "/" \o Basename(path)
                  IN  /\ ret # None
                      /\ IF path \in files
                         THEN /\ tab_image_dir \in files
                              /\ new_image_path \in files
                              /\ \E body \in Documents :
                                    Contains(body, ImageReference(new_image_path))
                         ELSE \E body \in Documents : Contains(body, ImageReference(""))

\* ------------------------------------------------------------------------
\* C14 - the order of the prompts
\* ------------------------------------------------------------------------

EndsWith(s, suffix) ==
    /\ Len(suffix) <= Len(s)
    /\ SubSeq(s, Len(s) - Len(suffix) + 1, Len(s)) = suffix

\* every entry of the prompt log carries a timestamp
EveryPromptTimed ==
    \A k \in 1..Len(prompts) : IsDict(prompts[k]) /\ "unixMs" \in DOMAIN prompts[k]

\* the prompts in ascending timestamp order when every entry carries a
\* timestamp, and in their arrival order otherwise
TimestampOrArrivalOrder == IF EveryPromptTimed THEN Sorted(prompts) ELSE prompts

\* the conversation part of a composer document whose turns follow the
\* prompts in the given order
ConversationOf(ordered) ==
    Join("\n", <<"## Conversation\n">>
                   \o AllPromptTurns(ordered, 1, BuildResponseMap(responses, 1, EmptyDict),
                                     generations))

\* the composers of the metadata are all records
ComposersAreDicts ==
    \A r \in 1..Len(chat_data) :
        (ComposerMetadata(r) /\ chat_data[r].value.json = "dict"
             /\ "allComposers" \in DOMAIN chat_data[r].value.obj)
            => \A k \in 1..Len(chat_data[r].value.obj.allComposers) :
                   IsDict(chat_data[r].value.obj.allComposers[k])

\* the entries of the prompt log are all records
PromptsAreDicts == \A k \in 1..Len(prompts) : IsDict(prompts[k])

\* C14: for a prompt log of records, whatever timestamps it lacks, the batch
\* does not fail, and the turns of every composer document follow the prompts
\* in ascending timestamp order when every prompt entry carries a timestamp
\* and in arrival order when at least one entry, whichever it is, carries none.
C14_TimestampOrderOrArrivalOrder ==
    (pc = "done" /\ ComposersAreDicts /\ PromptsAreDicts) =>
        /\ ret # None
        /\ \A body \in ComposerDocuments :
              EndsWith(body, ConversationOf(TimestampOrArrivalOrder))

\* ------------------------------------------------------------------------
\* C15 - one bucket per record
\* ------------------------------------------------------------------------

\* the key of record r matches one of the four key rules
KeyRuleMatches(r) ==
    \/ chat_data[r].key = "composer.composerData"
    \/ chat_data[r].key = "aiService.generations"
    \/ chat_data[r].key = "aiService.prompts"
    \/ StartsWith(chat_data[r].key, "cursorDiskKV:")

\* record r is routed to the chat sessions: no key rule matches and its value
\* holds a tabs field
RoutedAsSession(r) == IsSession(r) /\ ~KeyRuleMatches(r)

\* the considered tabs of the records routed to the chat sessions
RoutedTabPositions == {tp \in TabPositions : RoutedAsSession(tp[1])}

\* C15: a record whose key matches one of the four key rules is not
\* reconciled as a chat session, also when its value holds a tabs field: the
\* returned set has one chat document per considered tab of the records routed
\* to the chat sessions and none for the tabs of the other records, and the
\* counter ends at the number of composers plus the number of those tabs.
C15_KeyedRecordIsNoSession ==
    (pc = "done" /\ ret # None) =>
        /\ Cardinality(ChatDocuments) = Cardinality(RoutedTabPositions)
        /\ chat_count = ComposerCount + Cardinality(RoutedTabPositions)

====
